---- MODULE Spec2Model ----
(***************************************************************************)
(* Task dependency graph plugin (src/main.ts).                             *)
(*                                                                         *)
(* Text is modelled at the granularity the code's string operations and    *)
(* regular expressions can tell apart.  A document is the sequence of      *)
(* lines content.split('\n') returns; a line is a sequence of tokens, each *)
(* token a literal piece of text:                                          *)
(*    "- [ ]"  "- [x]"      the checklist markers                          *)
(*    " "                   one space                                      *)
(*    "t"                   one letter of ordinary text                    *)
(*    "[id:w]"              an identity tag, w a \w+ word                  *)
(*    "[dependsOn:w]"       a dependency tag                               *)
(*    "]"                   a lone closing bracket                         *)
(*    "[id:w" "[dependsOn:w" "- [ " "- [x"                                 *)
(*                          a tag or marker whose closing bracket was cut  *)
(*                          off by the splice in updateTaskDependency      *)
(*    "-"                   a dash (left in a label when "[ ]" is removed) *)
(* The concatenation of a line's tokens is the line's text.                *)
(***************************************************************************)
EXTENDS Integers, Sequences, FiniteSets, TLC

VARIABLES corpus, procs, network, tasks, hist, lastEvent, nEvents

vars == <<corpus, procs, network, tasks, hist, lastEvent, nEvents>>

(***************************************************************************)
(* Bounds of the model.                                                    *)
(***************************************************************************)
\* The number of markdown files getMarkdownFiles() returns.
NumDocs == 2
\* The number of lines of the corpus, all files together, at most; every file
\* has at least one line (split never returns an empty array).
MaxLines == 3
\* The number of user events (ribbon clicks, node clicks, add-edge requests).
MaxEvents == 3

(***************************************************************************)
(* Tokens.                                                                 *)
(***************************************************************************)
\* The \w+ words that occur in tags: some explicit ones, and every identity a
\* build can synthesize (at most one per line of the corpus).
SynthId(n) == "task" \o ToString(n)
ExplicitWords == {"a", "b", "g"}
Words == ExplicitWords \cup {SynthId(n) : n \in 1..MaxLines}

Unchecked == "- [ ]"
Checked == "- [x]"
Markers == {Unchecked, Checked}
Space == " "
Text == "t"
RB == "]"
Dash == "-"

IdTag(w) == "[id:" \o w \o "]"
DepTag(w) == "[dependsOn:" \o w \o "]"
IdTags == {IdTag(w) : w \in Words}
DepTags == {DepTag(w) : w \in Words}

\* A token that ends with the character ']'.
Closers == Markers \cup IdTags \cup DepTags \cup {RB}

\* The text of a closer without its final ']', as tokens.
CutIdTag(w) == "[id:" \o w
CutDepTag(w) == "[dependsOn:" \o w
CutTags == {CutIdTag(w) : w \in Words} \cup {CutDepTag(w) : w \in Words}
CutMarkers == {"- [ ", "- [x"}
DropLastChar(t) ==
  IF t = RB THEN <<>>
  ELSE IF t = Unchecked THEN <<"- [ ">>
  ELSE IF t = Checked THEN <<"- [x">>
  ELSE IF t \in IdTags THEN <<CutIdTag(CHOOSE w \in Words : IdTag(w) = t)>>
  ELSE <<CutDepTag(CHOOSE w \in Words : DepTag(w) = t)>>

Min(S) == CHOOSE x \in S : \A y \in S : x <= y
Max(S) == CHOOSE x \in S : \A y \in S : x >= y

(***************************************************************************)
(* String.prototype.trim on a line-free string: leading and trailing       *)
(* spaces go.                                                              *)
(***************************************************************************)
TrimStart(s) ==
  LET keep == {i \in 1..Len(s) : s[i] # Space}
  IN IF keep = {} THEN <<>> ELSE SubSeq(s, Min(keep), Len(s))

TrimEnd(s) ==
  LET keep == {i \in 1..Len(s) : s[i] # Space}
  IN IF keep = {} THEN <<>> ELSE SubSeq(s, 1, Max(keep))

Trim(s) == TrimEnd(TrimStart(s))

IsBlank(s) == \A i \in 1..Len(s) : s[i] = Space

(***************************************************************************)
(* updatedContent.trim() followed by the split('\n') of the next read:     *)
(* the loop appended '\n' to every line; trim removes all leading and      *)
(* trailing whitespace of the document, line breaks included.              *)
(***************************************************************************)
TrimContent(lines) ==
  LET keep == {i \in 1..Len(lines) : ~IsBlank(lines[i])}
  IN IF keep = {} THEN << <<>> >>
     ELSE LET lo == Min(keep)
              hi == Max(keep)
          IN [i \in 1..(hi - lo + 1) |->
                LET l == lines[lo + i - 1]
                    l1 == IF i = 1 THEN TrimStart(l) ELSE l
                IN IF i = hi - lo + 1 THEN TrimEnd(l1) ELSE l1]

(***************************************************************************)
(* getTasksFromNotes: the parse of one line.                               *)
(***************************************************************************)
\* line.match(/- \[[ x]\] (.+)/): the leftmost marker followed by a space and
\* at least one more character; 0 when the line does not match.
taskMatch(line) ==
  LET hits == {i \in 1..Len(line) :
                 /\ line[i] \in Markers
                 /\ i + 2 <= Len(line)
                 /\ line[i + 1] = Space}
  IN IF hits = {} THEN 0 ELSE Min(hits)

\* taskMatch[1].trim()
taskName(line) == Trim(SubSeq(line, taskMatch(line) + 2, Len(line)))

\* taskName.match(/\[id:(\w+)\]/): position of the first identity tag, or 0.
idMatch(name) ==
  LET hits == {i \in 1..Len(name) : name[i] \in IdTags}
  IN IF hits = {} THEN 0 ELSE Min(hits)

WordOfIdTag(t) == CHOOSE w \in Words : IdTag(w) = t
WordOfDepTag(t) == CHOOSE w \in Words : DepTag(w) = t

IsDepTag(t) == t \in DepTags

\* taskName.match(/\[dependsOn:(\w+)\]/g) mapped through slice(11, -1)
dependsOn(name) ==
  LET m == SelectSeq(name, IsDepTag)
  IN [i \in 1..Len(m) |-> WordOfDepTag(m[i])]

\* line.includes('- [x]')
completed(line) == \E i \in 1..Len(line) : line[i] = Checked

\* taskName.replace(/\[[^\]]+\]/g, ''): every run from a '[' to the next ']'
\* goes.  A whole tag goes; a marker loses its "[ ]" or "[x]" and leaves "- ";
\* a cut tag or cut marker opens a run that ends with the next closer.
RECURSIVE StripBrackets(_)
StripBrackets(s) ==
  IF s = <<>> THEN <<>>
  ELSE LET t == Head(s)
           closers == {j \in 2..Len(s) : s[j] \in Closers}
       IN IF t \in IdTags \cup DepTags THEN StripBrackets(Tail(s))
          ELSE IF t \in Markers THEN <<Dash, Space>> \o StripBrackets(Tail(s))
          ELSE IF t \in CutTags /\ closers # {}
            THEN StripBrackets(SubSeq(s, Min(closers) + 1, Len(s)))
          ELSE IF t \in CutMarkers /\ closers # {}
            THEN <<Dash, Space>> \o StripBrackets(SubSeq(s, Min(closers) + 1, Len(s)))
          ELSE <<t>> \o StripBrackets(Tail(s))

\* `st` is the state of one build: [tasks, uniqueId]; taskIds is the set of ids
\* of st.tasks.

\* const taskId = idMatch ? idMatch[1] : `task${uniqueId++}` -- the identity
resolveId(st, name) ==
  IF idMatch(name) # 0 THEN WordOfIdTag(name[idMatch(name)]) ELSE SynthId(st.uniqueId)

nextUniqueIdStuck(st, name) == st.uniqueId

\* ... and the counter after it.
nextUniqueIdIfKept(st, name) ==
  IF idMatch(name) # 0 THEN st.uniqueId
  ELSE IF SynthId(st.uniqueId) \in {st.tasks[i].id : i \in 1..Len(st.tasks)}
         THEN st.uniqueId
         ELSE st.uniqueId + 1

nextUniqueId(st, name) ==
  IF idMatch(name) # 0 THEN st.uniqueId ELSE st.uniqueId + 1

seenNever(st, taskId) == FALSE

\* taskIds.has(taskId)
seen(st, taskId) == taskId \in {st.tasks[i].id : i \in 1..Len(st.tasks)}

\* One iteration of lines.forEach.
ParseLine(st, line) ==
  IF taskMatch(line) = 0 THEN st
  ELSE LET name == taskName(line)
           taskId == resolveId(st, name)
           task == [id |-> taskId,
                    name |-> Trim(StripBrackets(name)),
                    dependencies |-> dependsOn(name),
                    completed |-> completed(line)]
       IN IF ~seen(st, taskId)
            THEN [tasks |-> Append(st.tasks, task), uniqueId |-> nextUniqueId(st, name)]
            ELSE [tasks |-> st.tasks, uniqueId |-> nextUniqueId(st, name)]

RECURSIVE ParseLines(_, _)
ParseLines(st, lines) ==
  IF lines = <<>> THEN st ELSE ParseLines(ParseLine(st, Head(lines)), Tail(lines))

\* getTasksFromNotes run to completion over a fixed corpus `c`.
RECURSIVE ParseDocs(_, _, _)
ParseDocs(st, c, i) ==
  IF i > Len(c) THEN st ELSE ParseDocs(ParseLines(st, c[i]), c, i + 1)

getTasksFromNotes(c) == ParseDocs([tasks |-> <<>>, uniqueId |-> 1], c, 1).tasks

(***************************************************************************)
(* renderGraph: the node and edge data handed to the display.              *)
(***************************************************************************)
RECURSIVE Flatten(_)
Flatten(ss) == IF ss = <<>> THEN <<>> ELSE Head(ss) \o Flatten(Tail(ss))

Nodes(ts) ==
  [i \in 1..Len(ts) |->
     [id |-> ts[i].id, label |-> ts[i].name,
      color |-> IF ts[i].completed THEN "#9BE7A4" ELSE "#E7A49B"]]

EdgesAmongNodes(ts) ==
  Flatten([i \in 1..Len(ts) |->
     LET known(d) == \E j \in 1..Len(ts) : ts[j].id = d
         deps == SelectSeq(ts[i].dependencies, known)
     IN [k \in 1..Len(deps) |-> [from |-> deps[k], to |-> ts[i].id]]])

Edges(ts) ==
  Flatten([i \in 1..Len(ts) |->
     [k \in 1..Len(ts[i].dependencies) |->
        [from |-> ts[i].dependencies[k], to |-> ts[i].id]]])

renderGraph(ts) == [nodes |-> Nodes(ts), edges |-> Edges(ts)]

NodeIds(n) == {n.nodes[i].id : i \in 1..Len(n.nodes)}

(***************************************************************************)
(* The two mutators, one line at a time.                                   *)
(***************************************************************************)
Includes(line, tok) == \E i \in 1..Len(line) : line[i] = tok

StartsWith(line, tok) == Len(line) >= 1 /\ line[1] = tok

\* The body of the for loop of toggleTaskCompletion.  When the line starts with
\* the marker, String.replace rewrites that first occurrence.
toggleLine(line, taskId) ==
  IF Includes(line, IdTag(taskId))
    THEN IF StartsWith(line, Unchecked) THEN <<Checked>> \o Tail(line)
         ELSE IF StartsWith(line, Checked) THEN <<Unchecked>> \o Tail(line)
         ELSE line
    ELSE line

\* line.replace(/\]$/, ` [dependsOn:${fromTaskId}]]`): the last character, when
\* it is ']', is replaced by a space, the new tag and a ']'.
spliceDependsOn(line, fromTaskId) ==
  IF Len(line) >= 1 /\ line[Len(line)] \in Closers
    THEN SubSeq(line, 1, Len(line) - 1) \o DropLastChar(line[Len(line)])
           \o <<Space, DepTag(fromTaskId), RB>>
    ELSE line

\* The body of the for loop of updateTaskDependency.
dependencyLine(line, fromTaskId, toTaskId) ==
  IF Includes(line, IdTag(toTaskId))
    THEN IF Includes(line, DepTag(fromTaskId)) THEN line
         ELSE spliceDependsOn(line, fromTaskId)
    ELSE line

\* What the edit passes to vault.modify for a document it read as `lines`.
updatedContent(p, lines) ==
  TrimContent([i \in 1..Len(lines) |->
     IF p.kind = "toggle" THEN toggleLine(lines[i], p.a)
     ELSE dependencyLine(lines[i], p.a, p.b)])

(***************************************************************************)
(* Asynchronous calls in flight.  Each await of a vault read or write is a *)
(* suspension point; `procs` holds the suspended calls.                    *)
(*   kind   "reload" (showTaskDependencyGraph), "toggle", "dep"            *)
(*   a, b   taskId of a toggle; fromTaskId, toTaskId of a dep              *)
(*   idx    the file of getMarkdownFiles() the call is at                  *)
(*   phase  "read": awaiting the read of idx; "write": awaiting modify     *)
(*   buf    the content passed to modify                                   *)
(*   tasks, uniqueId   the locals of getTasksFromNotes                     *)
(*   before the corpus when the call started (history, for the claims)     *)
(***************************************************************************)
NoDoc == << <<>> >>

NewProcCarryOver(kind, a, b) ==
  [kind |-> kind, a |-> a, b |-> b, idx |-> 1, phase |-> "read", buf |-> NoDoc,
   tasks |-> <<>>, uniqueId |-> Len(tasks) + 1, before |-> corpus]

NewProc(kind, a, b) ==
  [kind |-> kind, a |-> a, b |-> b, idx |-> 1, phase |-> "read", buf |-> NoDoc,
   tasks |-> <<>>, uniqueId |-> 1, before |-> corpus]

Remove(s, i) == SubSeq(s, 1, i - 1) \o SubSeq(s, i + 1, Len(s))

LastTwo(s) == IF Len(s) > 2 THEN SubSeq(s, Len(s) - 1, Len(s)) ELSE s

NoEvent == [type |-> "none", from |-> "", to |-> "", callback |-> "none"]

\* The ribbon icon's callback: showTaskDependencyGraph() up to its first await.
Ribbon ==
  /\ nEvents < MaxEvents
  /\ nEvents' = nEvents + 1
  /\ procs' = Append(procs, NewProc("reload", "", ""))
  /\ lastEvent' = [NoEvent EXCEPT !.type = "ribbon"]
  /\ UNCHANGED <<corpus, network, tasks, hist>>

\* network.on('click'): exactly one node selected; toggleTaskCompletion(nodeId)
\* up to its first await.
Click(nodeId) ==
  /\ nEvents < MaxEvents
  /\ nodeId \in NodeIds(network)
  /\ nEvents' = nEvents + 1
  /\ procs' = Append(procs, NewProc("toggle", nodeId, ""))
  /\ lastEvent' = [NoEvent EXCEPT !.type = "click", !.to = nodeId]
  /\ UNCHANGED <<corpus, network, tasks, hist>>

addEdgeUnguarded(from, to) ==
  /\ nEvents < MaxEvents
  /\ {from, to} \subseteq NodeIds(network)
  /\ nEvents' = nEvents + 1
  /\ lastEvent' = [type |-> "addEdge", from |-> from, to |-> to, callback |-> "edge"]
  /\ network' = [network EXCEPT !.edges = Append(@, [from |-> from, to |-> to])]
  /\ procs' = Append(procs, NewProc("dep", from, to))
  /\ UNCHANGED <<corpus, tasks, hist>>

\* manipulation.addEdge(edgeData, callback)
addEdge(from, to) ==
  /\ nEvents < MaxEvents
  /\ {from, to} \subseteq NodeIds(network)
  /\ nEvents' = nEvents + 1
  /\ IF from = to
       THEN /\ lastEvent' = [type |-> "addEdge", from |-> from, to |-> to,
                             callback |-> "null"]
            /\ UNCHANGED <<corpus, procs, network, tasks, hist>>
       ELSE /\ lastEvent' = [type |-> "addEdge", from |-> from, to |-> to,
                             callback |-> "edge"]
            /\ network' = [network EXCEPT
                             !.edges = Append(@, [from |-> from, to |-> to])]
            /\ procs' = Append(procs, NewProc("dep", from, to))
            /\ UNCHANGED <<corpus, tasks, hist>>

\* getTasksFromNotes resumes after `await cachedRead(file)`: the lines of the
\* file are parsed; after the last file the tasks are returned and rendered.
ReloadRead(i) ==
  /\ i \in 1..Len(procs)
  /\ procs[i].kind = "reload"
  /\ LET p == procs[i]
         st == ParseLines([tasks |-> p.tasks, uniqueId |-> p.uniqueId], corpus[p.idx])
     IN IF p.idx < NumDocs
          THEN /\ procs' = [procs EXCEPT ![i] =
                              [p EXCEPT !.idx = p.idx + 1, !.tasks = st.tasks,
                                        !.uniqueId = st.uniqueId]]
               /\ UNCHANGED <<network, tasks>>
          ELSE /\ procs' = Remove(procs, i)
               /\ tasks' = st.tasks
               /\ network' = renderGraph(st.tasks)
  /\ UNCHANGED <<corpus, hist, lastEvent, nEvents>>

\* An edit resumes after `await read(file)`: it computes the new content and
\* calls modify.
EditRead(i) ==
  /\ i \in 1..Len(procs)
  /\ procs[i].kind \in {"toggle", "dep"}
  /\ procs[i].phase = "read"
  /\ procs' = [procs EXCEPT ![i] =
                 [@ EXCEPT !.phase = "write",
                           !.buf = updatedContent(procs[i], corpus[procs[i].idx])]]
  /\ UNCHANGED <<corpus, network, tasks, hist, lastEvent, nEvents>>

EditWriteFresh(i) ==
  /\ i \in 1..Len(procs)
  /\ procs[i].kind \in {"toggle", "dep"}
  /\ procs[i].phase = "write"
  /\ LET p == procs[i]
     IN /\ corpus' = [corpus EXCEPT ![p.idx] = updatedContent(p, corpus[p.idx])]
        /\ IF p.idx < NumDocs
             THEN /\ procs' = [procs EXCEPT ![i] =
                                 [p EXCEPT !.idx = p.idx + 1, !.phase = "read",
                                           !.buf = NoDoc]]
                  /\ UNCHANGED hist
             ELSE /\ procs' = Append(Remove(procs, i),
                                     [NewProc("reload", "", "") EXCEPT !.before = corpus'])
                  /\ hist' = LastTwo(Append(hist,
                                [kind |-> p.kind, a |-> p.a, b |-> p.b,
                                 before |-> p.before, after |-> corpus']))
  /\ UNCHANGED <<network, tasks, lastEvent, nEvents>>

EditWriteNoReload(i) ==
  /\ i \in 1..Len(procs)
  /\ procs[i].kind \in {"toggle", "dep"}
  /\ procs[i].phase = "write"
  /\ LET p == procs[i]
     IN /\ corpus' = [corpus EXCEPT ![p.idx] = p.buf]
        /\ IF p.idx < NumDocs
             THEN /\ procs' = [procs EXCEPT ![i] =
                                 [p EXCEPT !.idx = p.idx + 1, !.phase = "read",
                                           !.buf = NoDoc]]
                  /\ UNCHANGED hist
             ELSE /\ procs' = Remove(procs, i)
                  /\ hist' = LastTwo(Append(hist,
                                [kind |-> p.kind, a |-> p.a, b |-> p.b,
                                 before |-> p.before, after |-> corpus']))
  /\ UNCHANGED <<network, tasks, lastEvent, nEvents>>

\* An edit resumes after `await modify(file, ...)`: the next file, or, after
\* the last one, showTaskDependencyGraph() up to its first await.
EditWrite(i) ==
  /\ i \in 1..Len(procs)
  /\ procs[i].kind \in {"toggle", "dep"}
  /\ procs[i].phase = "write"
  /\ LET p == procs[i]
     IN /\ corpus' = [corpus EXCEPT ![p.idx] = p.buf]
        /\ IF p.idx < NumDocs
             THEN /\ procs' = [procs EXCEPT ![i] =
                                 [p EXCEPT !.idx = p.idx + 1, !.phase = "read",
                                           !.buf = NoDoc]]
                  /\ UNCHANGED hist
             ELSE /\ procs' = Append(Remove(procs, i),
                                     [NewProc("reload", "", "") EXCEPT !.before = corpus'])
                  /\ hist' = LastTwo(Append(hist,
                                [kind |-> p.kind, a |-> p.a, b |-> p.b,
                                 before |-> p.before, after |-> corpus']))
  /\ UNCHANGED <<network, tasks, lastEvent, nEvents>>

(***************************************************************************)
(* Storage failure.  read, cachedRead and modify return promises the vault *)
(* may reject; no call is wrapped in try/catch and no handler awaits or    *)
(* catches, so the rejection ends the async function at the await.  A      *)
(* rejected modify is taken to leave the document as it was.               *)
(***************************************************************************)
\* The history record of a call that ended in a rejection.
Rejected(p) ==
  [kind |-> "rejected " \o p.kind, a |-> p.a, b |-> p.b,
   before |-> p.before, after |-> corpus]

EditReadSkipsFile(i) ==
  /\ i \in 1..Len(procs)
  /\ procs[i].kind \in {"toggle", "dep"}
  /\ procs[i].phase = "read"
  /\ IF procs[i].idx < NumDocs
       THEN procs' = [procs EXCEPT ![i] = [@ EXCEPT !.idx = @ + 1]]
       ELSE procs' = Append(Remove(procs, i), NewProc("reload", "", ""))
  /\ hist' = LastTwo(Append(hist, Rejected(procs[i])))
  /\ UNCHANGED <<corpus, network, tasks, lastEvent, nEvents>>

\* `await this.app.vault.read(file)` of an edit rejects.
EditReadFails(i) ==
  /\ i \in 1..Len(procs)
  /\ procs[i].kind \in {"toggle", "dep"}
  /\ procs[i].phase = "read"
  /\ procs' = Remove(procs, i)
  /\ hist' = LastTwo(Append(hist, Rejected(procs[i])))
  /\ UNCHANGED <<corpus, network, tasks, lastEvent, nEvents>>

\* `await this.app.vault.modify(file, ...)` of an edit rejects.
EditWriteFails(i) ==
  /\ i \in 1..Len(procs)
  /\ procs[i].kind \in {"toggle", "dep"}
  /\ procs[i].phase = "write"
  /\ procs' = Remove(procs, i)
  /\ hist' = LastTwo(Append(hist, Rejected(procs[i])))
  /\ UNCHANGED <<corpus, network, tasks, lastEvent, nEvents>>

\* `await this.app.vault.cachedRead(file)` rejects: getTasksFromNotes rejects,
\* and with it `await this.getTasksFromNotes()` in showTaskDependencyGraph,
\* before renderGraph.
ReloadReadFails(i) ==
  /\ i \in 1..Len(procs)
  /\ procs[i].kind = "reload"
  /\ procs' = Remove(procs, i)
  /\ hist' = LastTwo(Append(hist, Rejected(procs[i])))
  /\ UNCHANGED <<corpus, network, tasks, lastEvent, nEvents>>

(***************************************************************************)
(* Corpora.                                                                *)
(***************************************************************************)
RECURSIVE Sum(_, _)
Sum(f, n) == IF n = 0 THEN 0 ELSE f[n] + Sum(f, n - 1)

Shapes ==
  {sh \in [1..NumDocs -> 1..MaxLines] : Sum(sh, NumDocs) <= MaxLines}

\* The corpus of shape `sh` whose lines, in document-then-line order, are `flat`.
Split(flat, sh) ==
  [d \in 1..NumDocs |->
     [k \in 1..sh[d] |-> flat[Sum(sh, d - 1) + k]]]

Corpora(pool) ==
  UNION {{Split(flat, sh) : flat \in [1..Sum(sh, NumDocs) -> pool]} : sh \in Shapes}

\* Lines that exercise the parser: explicit, duplicated, missing and clashing
\* identities, dependency tags, a second marker, indentation, plain text, a
\* tag in front of the marker, an item text of spaces only.
BuildLines ==
  { <<Unchecked, Space, Text, Space, IdTag("a")>>,
    <<Checked, Space, Text, Space, IdTag("a"), Space, DepTag("g")>>,
    <<Unchecked, Space, Text, Space, DepTag("a")>>,
    <<Checked, Space, Text, Space, IdTag("task1")>>,
    <<Space, Unchecked, Space, Text, Space, Checked>>,
    <<Text>>,
    <<IdTag("b"), Space, Unchecked, Space, Text>>,
    <<Unchecked, Space, Space>> }

\* Lines that exercise the mutators: a tag at the end of the line, a
\* dependency tag at the end, a trailing space, indentation, no identity, and
\* the empty line (the last line of a file that ends with a line break).
EditLines ==
  { <<Unchecked, Space, Text, Space, IdTag("a")>>,
    <<Checked, Space, Text, Space, IdTag("b"), Space, DepTag("g")>>,
    <<Unchecked, Space, Text, Space, IdTag("b"), Space>>,
    <<Space, Unchecked, Space, Text, Space, IdTag("a")>>,
    <<Unchecked, Space, Text>>,
    <<>> }

InitWith(C) ==
  /\ corpus \in C
  /\ procs = <<>>
  /\ network = [nodes |-> <<>>, edges |-> <<>>]
  /\ tasks = <<>>
  /\ hist = <<>>
  /\ lastEvent = NoEvent
  /\ nEvents = 0

Idle == procs = <<>>

(***************************************************************************)
(* Spec: the plugin with its handlers as the code starts them, none        *)
(* awaited: every event may fire while earlier calls are suspended.        *)
(***************************************************************************)
\* The lines of the corpora the concurrent specification starts from.
ConcLines ==
  { <<Unchecked, Space, Text, Space, IdTag("a")>>,
    <<Checked, Space, Text, Space, IdTag("b"), Space, DepTag("g")>> }

Init == InitWith(Corpora(ConcLines))

Next ==
  \/ Ribbon
  \/ \E nodeId \in NodeIds(network) : Click(nodeId)
  \/ \E from \in NodeIds(network), to \in NodeIds(network) : addEdge(from, to)
  \/ \E i \in 1..Len(procs) : ReloadRead(i)
  \/ \E i \in 1..Len(procs) : EditRead(i)
  \/ \E i \in 1..Len(procs) : EditWrite(i)

Spec == Init /\ [][Next]_vars

(***************************************************************************)
(* SpecSeq: the same handlers, each event fired only when no call is in    *)
(* flight, so that every edit and its reload run to completion alone.      *)
(***************************************************************************)
SeqRibbon == Idle /\ Ribbon
SeqClick(nodeId) == Idle /\ Click(nodeId)
SeqAddEdge(from, to) == Idle /\ addEdge(from, to)

SeqNext ==
  \/ SeqRibbon
  \/ \E nodeId \in NodeIds(network) : SeqClick(nodeId)
  \/ \E from \in NodeIds(network), to \in NodeIds(network) : SeqAddEdge(from, to)
  \/ \E i \in 1..Len(procs) : ReloadRead(i)
  \/ \E i \in 1..Len(procs) : EditRead(i)
  \/ \E i \in 1..Len(procs) : EditWrite(i)

SeqInit == InitWith(Corpora(EditLines))

SpecSeq == SeqInit /\ [][SeqNext]_vars

(***************************************************************************)
(* SpecIdle: the corpora of Spec, the events fired only when idle.         *)
(***************************************************************************)
SpecIdle == Init /\ [][SeqNext]_vars

(***************************************************************************)
(* SpecFail: SpecIdle with a vault whose reads and writes may fail.        *)
(***************************************************************************)
FailNext ==
  \/ SeqNext
  \/ \E i \in 1..Len(procs) : EditReadFails(i)
  \/ \E i \in 1..Len(procs) : EditWriteFails(i)
  \/ \E i \in 1..Len(procs) : ReloadReadFails(i)

SpecFail == Init /\ [][FailNext]_vars

(***************************************************************************)
(* SpecSynth: the handlers fired when idle over corpora with task lines    *)
(* that carry no identity tag.                                             *)
(***************************************************************************)
\* A tagged task line, an untagged one, and an untagged one whose item text
\* is a single space.
SynthLines ==
  { <<Unchecked, Space, Text, Space, IdTag("a")>>,
    <<Checked, Space, Text>>,
    <<Unchecked, Space, Space>> }

SynthInit == InitWith(Corpora(SynthLines))

SpecSynth == SynthInit /\ [][SeqNext]_vars

(***************************************************************************)
(* SpecBuild: getTasksFromNotes and renderGraph over every corpus of       *)
(* BuildLines; the only event is the ribbon click, fired when idle.        *)
(***************************************************************************)
BuildInit == InitWith(Corpora(BuildLines))

BuildNext ==
  \/ SeqRibbon
  \/ \E i \in 1..Len(procs) : ReloadRead(i)

SpecBuild == BuildInit /\ [][BuildNext]_vars

(***************************************************************************)
(* Vocabulary of the claims.                                               *)
(***************************************************************************)
\* The lines of a corpus in document-then-line order, and those the task-line
\* pattern recognizes.
AllLines(c) == Flatten(c)
IsTaskLine(l) == taskMatch(l) # 0
TaskLines(c) == SelectSeq(AllLines(c), IsTaskLine)

\* The item text of a task line carries an [id:...] tag.
HasIdTag(l) == idMatch(taskName(l)) # 0

\* The identity the k-th task line yields: its first tag, or "task" followed by
\* its rank among the task lines without a tag.
YieldedId(tl, k) ==
  IF HasIdTag(tl[k]) THEN WordOfIdTag(taskName(tl[k])[idMatch(taskName(tl[k]))])
  ELSE SynthId(1 + Cardinality({j \in 1..(k - 1) : ~HasIdTag(tl[j])}))

YieldedIds(tl) == {YieldedId(tl, k) : k \in 1..Len(tl)}

\* The first task line that yields `id`.
FirstYield(tl, id) == Min({k \in 1..Len(tl) : YieldedId(tl, k) = id})

\* The marker that makes the line a task.
MatchedMarker(l) == l[taskMatch(l)]

\* The dependency tags of the item text, in order.
DeclaredDeps(l) == dependsOn(taskName(l))

TaskIdsOf(ts) == {ts[i].id : i \in 1..Len(ts)}

InSeq(x, s) == \E i \in 1..Len(s) : s[i] = x

\* A build has returned and been rendered, and nothing is in flight.
Built == Idle /\ nEvents > 0

\* Under SpecSeq and SpecBuild the collection on display is the build of the
\* corpus as it stands.
DisplayedIsBuild == Built => tasks = getTasksFromNotes(corpus)

\* A cut tag or marker is always followed by a space: no token sequence spells
\* a tag or a marker across a token boundary.
LineCanonical(l) ==
  \A i \in 1..Len(l) : l[i] \in CutTags \cup CutMarkers => i < Len(l) /\ l[i + 1] = Space
CorpusCanonical ==
  \A d \in 1..NumDocs : \A k \in 1..Len(corpus[d]) : LineCanonical(corpus[d][k])

(***************************************************************************)
(* The claims.                                                             *)
(***************************************************************************)
LastEdit == hist[Len(hist)]

\* Two edits of the same kind and arguments ran to completion one after the
\* other, the second starting from what the first left.
TwiceInARow(kind) ==
  /\ Len(hist) = 2
  /\ hist[1].kind = kind /\ hist[2].kind = kind
  /\ hist[1].a = hist[2].a /\ hist[1].b = hist[2].b
  /\ hist[2].before = hist[1].after

\* Some line of corpus `c` contains the token `tok`.
CorpusIncludes(c, tok) ==
  \E d \in 1..NumDocs : \E k \in 1..Len(c[d]) : Includes(c[d][k], tok)

\* C1: toggleTaskCompletion(T), T an explicit id of the corpus, run to
\* completion twice in a row leaves every document byte-for-byte as it was
\* before the first call.
C1_ToggleTwiceRestoresText ==
  (TwiceInARow("toggle") /\ CorpusIncludes(hist[1].before, IdTag(hist[1].a)))
    => hist[2].after = hist[1].before

\* The task with id T of collection `ts` comes from a line with an explicit tag.
ExplicitTask(c, T) ==
  /\ T \in YieldedIds(TaskLines(c))
  /\ HasIdTag(TaskLines(c)[FirstYield(TaskLines(c), T)])

FlipCompleted(ts, T) ==
  [i \in 1..Len(ts) |-> IF ts[i].id = T THEN [ts[i] EXCEPT !.completed = ~@] ELSE ts[i]]

\* C2: after toggleTaskCompletion(T), T a task with an explicit tag, the
\* rebuilt collection is the one before with the completed flag of T negated
\* and every other task, and the order, unchanged.
C2_ToggleFlipsOnlyTarget ==
  (/\ Built
   /\ hist # <<>>
   /\ LastEdit.kind = "toggle"
   /\ LastEdit.after = corpus
   /\ ExplicitTask(LastEdit.before, LastEdit.a))
    => tasks = FlipCompleted(getTasksFromNotes(LastEdit.before), LastEdit.a)

\* Corpus `c` has a task line that contains [id:B], does not contain
\* [dependsOn:A], and ends with the closing bracket of a well-formed tag.
SpliceableTaskLine(c, A, B) ==
  \E d \in 1..NumDocs : \E k \in 1..Len(c[d]) :
    LET l == c[d][k]
    IN /\ IsTaskLine(l)
       /\ Includes(l, IdTag(B))
       /\ ~Includes(l, DepTag(A))
       /\ l[Len(l)] \in IdTags \cup DepTags

\* C3: after updateTaskDependency(A, B), A # B, on such a corpus the rebuilt
\* collection has a task with id B whose dependencies include A, and the
\* projection has the edge from A to B.
C3_AddedDependencyIsExtracted ==
  (/\ Built
   /\ hist # <<>>
   /\ LastEdit.kind = "dep"
   /\ LastEdit.after = corpus
   /\ LastEdit.a # LastEdit.b
   /\ SpliceableTaskLine(LastEdit.before, LastEdit.a, LastEdit.b))
    => /\ \E i \in 1..Len(tasks) :
            tasks[i].id = LastEdit.b /\ InSeq(LastEdit.a, tasks[i].dependencies)
       /\ InSeq([from |-> LastEdit.a, to |-> LastEdit.b], network.edges)

\* C4: updateTaskDependency(A, B) run to completion twice in a row leaves every
\* document after the second call as it was after the first.
C4_AddDependencyIdempotent ==
  TwiceInARow("dep") => hist[2].after = hist[1].after

\* C5: an add-edge request whose endpoints are the same id starts no
\* updateTaskDependency: no call is put in flight (so no document is read or
\* written and no reload follows), corpus and display stay as they are, and the
\* callback receives null.
C5_SelfDependencyRefused ==
  [][(/\ nEvents' = nEvents + 1
      /\ lastEvent'.type = "addEdge"
      /\ lastEvent'.from = lastEvent'.to)
      => /\ lastEvent'.callback = "null"
         /\ UNCHANGED <<corpus, procs, network, tasks, hist>>]_vars

C5_Witness ==
  /\ lastEvent.type = "addEdge"
  /\ lastEvent.from = lastEvent.to
  /\ lastEvent.callback = "null"

\* The task record the parser derives from task line `l` under identity `id`.
TaskOfLine(l, id) ==
  [id |-> id,
   name |-> Trim(StripBrackets(taskName(l))),
   dependencies |-> DeclaredDeps(l),
   completed |-> completed(l)]

\* C6: the collection a build returns has no two tasks with the same id; it
\* has one task for every id some line yields, and that task is the one of
\* the first line, in document-then-line order, that yields the id.
C6_FirstLineWins ==
  Built =>
    LET tl == TaskLines(corpus)
    IN /\ \A i, j \in 1..Len(tasks) : tasks[i].id = tasks[j].id => i = j
       /\ TaskIdsOf(tasks) = YieldedIds(tl)
       /\ \A i \in 1..Len(tasks) :
            tasks[i] = TaskOfLine(tl[FirstYield(tl, tasks[i].id)], tasks[i].id)

\* A build has returned a collection in which a later line that yields the
\* id of an earlier one, with other content, was dropped.
C6_Witness ==
  /\ Built
  /\ LET tl == TaskLines(corpus)
     IN \E j, k \in 1..Len(tl) :
          /\ j < k
          /\ YieldedId(tl, j) = YieldedId(tl, k)
          /\ tl[j] # tl[k]
          /\ \E i \in 1..Len(tasks) : tasks[i] = TaskOfLine(tl[j], YieldedId(tl, j))

NoIdTagAnywhere(c) == \A w \in Words : ~CorpusIncludes(c, IdTag(w))

\* C7: over a corpus in which no line carries an [id:...] tag, the ids of the
\* collection are task1, ..., taskN in this order, N the number of recognized
\* task lines, the i-th task being the one of the i-th task line.
C7_FallbackIds ==
  (Built /\ NoIdTagAnywhere(corpus)) =>
    LET tl == TaskLines(corpus)
    IN /\ Len(tasks) = Len(tl)
       /\ \A i \in 1..Len(tasks) :
            /\ tasks[i].id = "task" \o ToString(i)
            /\ tasks[i] = TaskOfLine(tl[i], "task" \o ToString(i))

C7_Witness ==
  /\ Built
  /\ NoIdTagAnywhere(corpus)
  /\ Len(TaskLines(corpus)) >= 2
  /\ Len(tasks) >= 2
  /\ tasks[2].id = "task2"

\* C8: once every triggered edit and reload has run to completion, the graph
\* rendered last is the projection of the collection built from the corpus as
\* it stands.
C8_DisplayMatchesText ==
  Built => network = renderGraph(getTasksFromNotes(corpus))

\* C9: the completed flag of a task is true exactly when the marker matched by
\* the task-line pattern on its line is "- [x]".
C9_CompletedIffMarkerChecked ==
  Built =>
    LET tl == TaskLines(corpus)
    IN \A i \in 1..Len(tasks) :
         tasks[i].completed = (MatchedMarker(tl[FirstYield(tl, tasks[i].id)]) = Checked)

\* C10: a retained task line that declares [dependsOn:G], no task having id G,
\* yields a task with G among its dependencies, and the projection has the
\* edge from G to the task although no node has id G.
C10_DanglingReferenceKept ==
  Built =>
    LET tl == TaskLines(corpus)
        ids == TaskIdsOf(tasks)
    IN \A i \in 1..Len(tasks) :
         LET declared == DeclaredDeps(tl[FirstYield(tl, tasks[i].id)])
         IN \A k \in 1..Len(declared) :
              declared[k] \notin ids
                => /\ InSeq(declared[k], tasks[i].dependencies)
                   /\ InSeq([from |-> declared[k], to |-> tasks[i].id], network.edges)
                   /\ declared[k] \notin NodeIds(network)

C10_Witness ==
  /\ Built
  /\ \E i \in 1..Len(tasks) : \E k \in 1..Len(tasks[i].dependencies) :
       LET G == tasks[i].dependencies[k]
       IN /\ InSeq(G, DeclaredDeps(TaskLines(corpus)[FirstYield(TaskLines(corpus), tasks[i].id)]))
          /\ G \notin TaskIdsOf(tasks)
          /\ InSeq([from |-> G, to |-> tasks[i].id], network.edges)
          /\ G \notin NodeIds(network)

\* A build returns while an earlier build's collection is on display: the
\* second or a later ribbon click of SpecBuild, whose corpus never changes.
SecondBuildReturns ==
  /\ nEvents >= 2
  /\ procs # <<>>
  /\ procs' = <<>>

\* C11: two consecutive builds over the same unchanged corpus return identical
\* collections (ids, order, name, dependencies, completed); every build starts
\* with an empty collection (the seen ids are those of the collection) and
\* with the counter at 1.
C11_BuildsAreRepeatable ==
  [][/\ (SecondBuildReturns /\ corpus' = corpus) => tasks' = tasks
     /\ Len(procs') > Len(procs)
          => /\ procs'[Len(procs')].tasks = <<>>
             /\ procs'[Len(procs')].uniqueId = 1]_vars

\* A second build has returned over a corpus with an untagged task line and
\* a dropped duplicate.
C11_Witness ==
  /\ Idle
  /\ nEvents >= 2
  /\ \E k \in 1..Len(TaskLines(corpus)) : ~HasIdTag(TaskLines(corpus)[k])
  /\ Len(tasks) < Len(TaskLines(corpus))
  /\ tasks = getTasksFromNotes(corpus)

\* The id whose tag the edit looks for: T of toggleTaskCompletion(T), B of
\* updateTaskDependency(A, B).
TargetOf(e) == IF e.kind = "toggle" THEN e.a ELSE e.b

\* C12: an edit run to completion alone writes back, for every document, the
\* lines it read, except those that contain the tag of the targeted id: the
\* document has as many lines as before and every line without the tag is
\* the same; a document without such a line is written back as it was read.
C12_OtherLinesUntouched ==
  hist # <<>> =>
    \A d \in 1..NumDocs :
      LET read == LastEdit.before[d]
          written == LastEdit.after[d]
      IN /\ Len(written) = Len(read)
         /\ \A k \in 1..Len(read) :
              ~Includes(read[k], IdTag(TargetOf(LastEdit))) => written[k] = read[k]

\* The elements of `s` occur in `t` in the same order.
RECURSIVE IsSubsequence(_, _)
IsSubsequence(s, t) ==
  IF s = <<>> THEN TRUE
  ELSE IF t = <<>> THEN FALSE
  ELSE IF Head(s) = Head(t) THEN IsSubsequence(Tail(s), Tail(t))
  ELSE IsSubsequence(s, Tail(t))

\* C13: after updateTaskDependency(A, B) run to completion alone and the
\* rebuild, every task that had id B is still there with id B, the same name,
\* the same completed flag and the dependencies it had, in their order, and
\* every other task of the collection before is in the collection unchanged.
C13_DependencyOnlyAdded ==
  (/\ Built
   /\ hist # <<>>
   /\ LastEdit.kind = "dep"
   /\ LastEdit.after = corpus)
    => LET old == getTasksFromNotes(LastEdit.before)
       IN \A i \in 1..Len(old) :
            IF old[i].id = LastEdit.b
              THEN \E j \in 1..Len(tasks) :
                     /\ tasks[j].id = old[i].id
                     /\ tasks[j].name = old[i].name
                     /\ tasks[j].completed = old[i].completed
                     /\ IsSubsequence(old[i].dependencies, tasks[j].dependencies)
              ELSE InSeq(old[i], tasks)

\* Document `doc` has a line that contains the tag of the id edit `e` targets.
HasMatchingLine(doc, e) ==
  \E k \in 1..Len(doc) : Includes(doc[k], IdTag(TargetOf(e)))

\* C14: an edit writes a document only if the document contains a line with
\* the tag of the targeted id: a step in which an edit's modify of a
\* document completes is a step of a document with a matching line.
C14_WritesOnlyMatchedDocuments ==
  [][\A i \in 1..Len(procs) :
       EditWrite(i) => HasMatchingLine(corpus[procs[i].idx], procs[i])]_vars

\* The number of getTasksFromNotes calls in flight.
ReloadsInFlight(ps) == Cardinality({i \in 1..Len(ps) : ps[i].kind = "reload"})

\* Edit i's modify of the last document completes: its scan is over.
ScanCompletes(i) == EditWrite(i) /\ procs[i].idx = NumDocs

\* Edit i resumes without ending its scan.
ScanGoesOn(i) == EditRead(i) \/ (EditWrite(i) /\ procs[i].idx < NumDocs)

\* C15: the step in which an edit's write of the last document completes
\* starts exactly one reload, which has read no document yet and starts from
\* the corpus that holds this write; the edit is then over.  No step of an
\* edit before that one starts a reload.
C15_ScanEndStartsOneReload ==
  [][\A i \in 1..Len(procs) :
       /\ ScanCompletes(i)
            => /\ ReloadsInFlight(procs') = ReloadsInFlight(procs) + 1
               /\ Len(procs') = Len(procs)
               /\ LET r == procs'[Len(procs')]
                  IN /\ r.kind = "reload"
                     /\ r.idx = 1
                     /\ r.tasks = <<>>
                     /\ r.before = corpus'
               /\ corpus'[NumDocs] = procs[i].buf
       /\ ScanGoesOn(i) => ReloadsInFlight(procs') = ReloadsInFlight(procs)]_vars

\* An edit that changed the text has ended its scan, and the reload it
\* started is about to read the first document.
C15_Witness ==
  /\ hist # <<>>
  /\ corpus = LastEdit.after
  /\ corpus # LastEdit.before
  /\ Len(procs) = 1
  /\ procs[1].kind = "reload"
  /\ procs[1].idx = 1
  /\ procs[1].before = corpus

\* C16: a step in which a read or a write of an edit fails ends the edit
\* there: the call is no longer in flight (it reads and writes no later
\* document), no reload is started, nothing is rendered, and the corpus stays
\* as it is, the documents the edit has already written included.  A step in
\* which a read of a reload fails ends the reload and renders nothing: the
\* graph on display stays as it was.
C16_FailureRejectsTheCall ==
  [][\A i \in 1..Len(procs) :
       /\ (EditReadFails(i) \/ EditWriteFails(i))
            => /\ procs' = Remove(procs, i)
               /\ ReloadsInFlight(procs') = ReloadsInFlight(procs)
               /\ corpus' = corpus
               /\ network' = network
               /\ tasks' = tasks
       /\ ReloadReadFails(i)
            => /\ procs' = Remove(procs, i)
               /\ corpus' = corpus
               /\ network' = network
               /\ tasks' = tasks]_vars

\* A reload was rejected, then a toggle was rejected after it had written the
\* first document with a change: that document keeps the new content, nothing
\* is in flight, and the graph on display is still the one of the text before.
C16_Witness ==
  /\ Idle
  /\ Len(hist) = 2
  /\ hist[1].kind = "rejected reload"
  /\ hist[2].kind = "rejected toggle"
  /\ corpus = hist[2].after
  /\ corpus[1] # hist[2].before[1]
  /\ corpus[NumDocs] = hist[2].before[NumDocs]
  /\ network = renderGraph(getTasksFromNotes(hist[2].before))
  /\ network # renderGraph(getTasksFromNotes(corpus))

\* What edit `e` makes of corpus `c` when nothing else runs.
ApplyEdit(e, c) == [d \in 1..NumDocs |-> updatedContent(e, c[d])]

\* C17: the write of an edit replaces the document with the content derived
\* from the edit's own read, whatever the document holds by then: nothing
\* compares the document with what was read.
C17_WriteOverwritesFromStaleRead ==
  [][\A i \in 1..Len(procs) :
       EditWrite(i) => corpus'[procs[i].idx] = procs[i].buf]_vars

\* Two edits started from the same text have both run to completion, the
\* first one alone would have changed the text, and the final text is what
\* the second alone makes of the initial text: the change of the first is
\* missing.
C17_Witness ==
  /\ Idle
  /\ Len(hist) = 2
  /\ hist[1].before = hist[2].before
  /\ corpus = hist[2].after
  /\ LET c0 == hist[1].before
     IN /\ ApplyEdit(hist[1], c0) # c0
        /\ corpus = ApplyEdit(hist[2], c0)
        /\ corpus # ApplyEdit(hist[2], ApplyEdit(hist[1], c0))
        /\ corpus # ApplyEdit(hist[1], ApplyEdit(hist[2], c0))

\* The number of task lines without an [id:...] tag among the first n of `tl`.
Untagged(tl, n) == Cardinality({j \in 1..n : ~HasIdTag(tl[j])})

\* The word of the first [id:...] tag of a tagged task line.
TagOf(l) == WordOfIdTag(taskName(l)[idMatch(taskName(l))])

\* The task lines of the first n documents of `c`.
TaskLinesUpTo(c, n) == SelectSeq(Flatten(SubSeq(c, 1, n)), IsTaskLine)

\* C18: within a build the counter stands, after every document, at one plus
\* the number of untagged task lines read so far, whether or not they were
\* kept; in the collection returned, the k-th untagged task line has identity
\* "task" followed by k: the task of that identity is the one of this line
\* unless an earlier line carries the tag [id:task<k>], in which case it is
\* the one of the first such line and this line is dropped.
C18_CounterAdvancesPerUntaggedLine ==
  /\ \A i \in 1..Len(procs) :
       procs[i].kind = "reload" =>
         procs[i].uniqueId =
           1 + Untagged(TaskLinesUpTo(corpus, procs[i].idx - 1),
                        Len(TaskLinesUpTo(corpus, procs[i].idx - 1)))
  /\ Built =>
       LET tl == TaskLines(corpus)
       IN \A k \in 1..Len(tl) :
            ~HasIdTag(tl[k]) =>
              LET id == "task" \o ToString(Untagged(tl, k))
                  earlier == {j \in 1..(k - 1) : HasIdTag(tl[j]) /\ TagOf(tl[j]) = id}
                  kept == IF earlier = {} THEN tl[k] ELSE tl[Min(earlier)]
              IN /\ Cardinality({i \in 1..Len(tasks) : tasks[i].id = id}) = 1
                 /\ InSeq(TaskOfLine(kept, id), tasks)

\* A build has returned over a corpus in which the first untagged task line
\* was dropped (an earlier line carries [id:task1]) and the second untagged
\* task line became task2.
C18_Witness ==
  /\ Built
  /\ LET tl == TaskLines(corpus)
     IN /\ Len(tl) = 3
        /\ HasIdTag(tl[1]) /\ TagOf(tl[1]) = "task1"
        /\ ~HasIdTag(tl[2])
        /\ ~HasIdTag(tl[3])
        /\ TaskOfLine(tl[2], "task1") # TaskOfLine(tl[1], "task1")
        /\ tasks = <<TaskOfLine(tl[1], "task1"), TaskOfLine(tl[3], "task2")>>

\* Collection `ts` built from corpus `c` has a task with id `T` that comes
\* from a line without any [id:...] tag, and no line of `c` contains [id:T].
SynthesizedTask(c, T) ==
  /\ ~CorpusIncludes(c, IdTag(T))
  /\ LET tl == TaskLines(c)
     IN \E k \in 1..Len(tl) :
          /\ YieldedId(tl, k) = T
          /\ \A w \in Words : ~Includes(tl[k], IdTag(w))

\* C19: after toggleTaskCompletion(T) or updateTaskDependency(x, T) run to
\* completion alone, T the id of a displayed task that was synthesized, the
\* rebuilt collection is the collection before the edit.
C19_SynthesizedTargetChangesNothing ==
  (/\ Built
   /\ hist # <<>>
   /\ LastEdit.kind \in {"toggle", "dep"}
   /\ LastEdit.after = corpus
   /\ SynthesizedTask(LastEdit.before, TargetOf(LastEdit)))
    => tasks = getTasksFromNotes(LastEdit.before)

====
